---- MODULE Spec2Model ----
(***************************************************************************)
(* Model of the two DuckDB demonstration programs:                         *)
(*   cmd/statistics/statistics.go  (insert benchmark + two statistics      *)
(*                                  paths)                                 *)
(*   cmd/basic/basic.go            (create / insert loop / select)         *)
(*                                                                         *)
(* float64 values are modelled as exact rationals [n, d] (d > 0, lowest    *)
(* terms); +Inf and -Inf are [1, 0] and [-1, 0].  math.Sqrt is modelled    *)
(* as the injective symbolic value [sqrt |-> q].  Rounding is therefore    *)
(* abstracted away: two results that agree here agree mathematically.      *)
(*                                                                         *)
(* The database engine and database/sql are external.  They are modelled   *)
(* by their contract: a statement that can succeed may also fail (an       *)
(* environment fault); a statement that cannot succeed always fails.       *)
(***************************************************************************)
EXTENDS Integers, Sequences, FiniteSets, TLC

VARIABLES
    prog,      \* which program runs: "statistics", "basic", or "lib" (a direct call)
    pc,        \* position in the program
    N,         \* statistics.go main: N
    records,   \* the []Record slice (main's, or the caller's in "lib")
    given,     \* the slice as it was when StatisticsFromRecords was called
    i,         \* loop index of the insert loops
    err,       \* StandardInsert's return value: 0 is nil, k is the error of log[k]
    stats,     \* main's mean, median, stddev, min, max (a 5-tuple, << >> before)
    scanned,   \* StatisticsFromDB's locals after rows.Scan
    out,       \* what the program has printed, in order
    exit,      \* exit status, -1 while running
    db,        \* *sql.DB: "none", "nil", "open", "closed"
    rows,      \* *sql.Rows: "none", "nil", "open", "closed"
    log,       \* every database operation attempted: [sql, args, ok]
    engine     \* the engine: [tables, committed, txRows, inTx]

vars == <<prog, pc, N, records, given, i, err, stats, scanned, out, exit, db, rows, log, engine>>

\* ------------------------------------------------------------------ bounds

MaxN == 5
MaxLen == 5
MaxVal == 5

\* basic.go: for i := range 10
LoopCount == 10

\* ------------------------------------------------------------------ float64

RECURSIVE Gcd(_, _)
Gcd(a, b) == IF b = 0 THEN a ELSE Gcd(b, a % b)

Abs(x) == IF x < 0 THEN -x ELSE x

Rat(n, d) ==
    LET s == IF d < 0 THEN -1 ELSE 1
        g == Gcd(Abs(n), Abs(d))
    IN  [n |-> (s * n) \div g, d |-> (s * d) \div g]

Float(k) == [n |-> k, d |-> 1]
PosInf == [n |-> 1, d |-> 0]
NegInf == [n |-> -1, d |-> 0]

FAdd(a, b) == Rat(a.n * b.d + b.n * a.d, a.d * b.d)
FSub(a, b) == Rat(a.n * b.d - b.n * a.d, a.d * b.d)
FMul(a, b) == Rat(a.n * b.n, a.d * b.d)
FDiv(a, b) == Rat(a.n * b.d, a.d * b.n)
FGt(a, b) == a.n * b.d > b.n * a.d
FLt(a, b) == a.n * b.d < b.n * a.d
Sqrt(q) == [sqrt |-> q]

\* ------------------------------------------------------------------ StatisticsFromRecords

\* slices.Sort(values): ascending order (insertion sort).
RECURSIVE InsertSorted(_, _)
InsertSorted(s, x) ==
    IF s = << >> THEN <<x>>
    ELSE IF FLt(x, Head(s)) THEN <<x>> \o s
    ELSE <<Head(s)>> \o InsertSorted(Tail(s), x)

RECURSIVE SlicesSort(_)
SlicesSort(s) == IF s = << >> THEN << >> ELSE InsertSorted(SlicesSort(Tail(s)), Head(s))

\* Lines 39-42: the state before the first loop.
FirstLoopInit(recs) ==
    [values |-> [k \in 1..Len(recs) |-> Float(0)], sum |-> Float(0),
     max |-> NegInf, min |-> PosInf]

\* Lines 44-53: one iteration of the first loop, on record k.
FirstLoopBody(acc, recs, k) ==
    LET v == recs[k].Value
    IN  [values |-> [acc.values EXCEPT ![k] = v],
         sum |-> FAdd(acc.sum, v),
         max |-> IF FGt(v, acc.max) THEN v ELSE acc.max,
         min |-> IF FLt(v, acc.min) THEN v ELSE acc.min]

RECURSIVE FirstLoop(_, _)
FirstLoop(recs, k) ==
    IF k = 0 THEN FirstLoopInit(recs) ELSE FirstLoopBody(FirstLoop(recs, k - 1), recs, k)

\* Line 55.
Mean(sum, recs) == FDiv(sum, Float(Len(recs)))

\* Lines 57-59: stddev += (r.Value - mean) * (r.Value - mean).
RECURSIVE SecondLoop(_, _, _)
SecondLoop(recs, mean, k) ==
    IF k = 0 THEN Float(0)
    ELSE FAdd(SecondLoop(recs, mean, k - 1),
              FMul(FSub(recs[k].Value, mean), FSub(recs[k].Value, mean)))

\* Mutant of StdDev: the sample estimator, dividing by N-1.
StdDevSample(sq, recs) ==
    Sqrt(FDiv(sq, Float(IF Len(recs) > 1 THEN Len(recs) - 1 ELSE 1)))

\* Line 60.
StdDev(sq, recs) == Sqrt(FDiv(sq, Float(Len(recs))))

\* Mutant of Median: for even N the upper middle value alone, not the average.
MedianUpperMiddle(values) == values[(Len(values) \div 2) + 1]

\* Lines 62-66, on the sorted values (Go indexes from 0, sequences from 1).
Median(values) ==
    LET n == Len(values)
    IN  IF n % 2 = 0
        THEN FDiv(FAdd(values[(n \div 2 - 1) + 1], values[(n \div 2) + 1]), Float(2))
        ELSE values[(n \div 2) + 1]

\* Mutant of SortValues: the sort reorders the caller's records as well.
SortValuesInPlace(recs, values) ==
    LET sorted == SlicesSort(values)
    IN  [records |-> [k \in 1..Len(recs) |->
                        CHOOSE r \in {recs[j] : j \in 1..Len(recs)} : r.Value = sorted[k]],
         values |-> sorted]

\* Line 54 sorts the slice `values`, which line 39 allocated with its own
\* backing array: the caller's records are not touched.
SortValues(recs, values) == [records |-> recs, values |-> SlicesSort(values)]

\* The whole function: the 5-tuple it returns and the caller's slice afterwards.
StatisticsFromRecords(recs) ==
    LET acc == FirstLoop(recs, Len(recs))
        mem == SortValues(recs, acc.values)
        mean == Mean(acc.sum, mem.records)
        stddev == StdDev(SecondLoop(mem.records, mean, Len(mem.records)), mem.records)
        median == Median(mem.values)
    IN  [ret |-> <<mean, median, stddev, acc.min, acc.max>>, records |-> mem.records]

\* ------------------------------------------------------------------ a direct call

Idle == [tables |-> {}, committed |-> << >>, txRows |-> << >>, inTx |-> FALSE]

\* The list of records with the values vals[1], ..., vals[n], in that order.
RecordsOf(vals) == [k \in 1..Len(vals) |-> [ID |-> k - 1, Value |-> Float(vals[k])]]

InitRecords ==
    /\ prog = "lib"
    /\ pc = "call"
    /\ \E n \in 1..MaxLen : \E vals \in [1..n -> 0..MaxVal] : records = RecordsOf(vals)
    /\ given = records
    /\ N = Len(records)
    /\ i = 0
    /\ err = 0
    /\ stats = << >>
    /\ scanned = << >>
    /\ out = << >>
    /\ exit = -1
    /\ db = "none"
    /\ rows = "none"
    /\ log = << >>
    /\ engine = Idle

CallStatisticsFromRecords ==
    /\ prog = "lib"
    /\ pc = "call"
    /\ LET r == StatisticsFromRecords(records)
       IN  /\ stats' = r.ret
           /\ records' = r.records
    /\ pc' = "returned"
    /\ UNCHANGED <<prog, N, given, i, err, scanned, out, exit, db, rows, log, engine>>

NextRecords == CallStatisticsFromRecords

SpecRecords == InitRecords /\ [][NextRecords]_vars

\* ------------------------------------------------------------------ the engine, as the programs use it

SqlCreateRecords == "CREATE SEQUENCE seq_records_id START 1; CREATE TABLE records (id INTEGER DEFAULT nextval('seq_records_id'), value DOUBLE)"
SqlBegin == "BEGIN TRANSACTION"
SqlInsertRecord == "INSERT INTO records (value) VALUES (?)"
SqlCommit == "COMMIT"
SqlAggregate == "SELECT AVG(value), MEDIAN(value), STDDEV_POP(value), MIN(value), MAX(value) FROM records"
SqlCreateT == "CREATE TABLE t (i INTEGER)"
SqlInsertT == "INSERT INTO t VALUES (%s)"
SqlSelectT == "SELECT * FROM t"

\* The table a statement is about.
TableOf(sql) == IF sql \in {SqlCreateT, SqlInsertT, SqlSelectT} THEN "t" ELSE "records"

\* The number of parameter placeholders in a statement's text.
Placeholders(sql) == IF sql = SqlInsertRecord THEN 1 ELSE 0

\* Whether the text is SQL at all: "%s" is a format verb, not a SQL token.
Parses(sql) == sql # SqlInsertT

\* Whether the engine can execute the statement in its present state.
CanSucceed(eng, sql, args) ==
    /\ Parses(sql)
    /\ Placeholders(sql) = Len(args)
    /\ sql \in {SqlCreateRecords, SqlCreateT} => TableOf(sql) \notin eng.tables
    /\ sql \in {SqlInsertRecord, SqlInsertT, SqlAggregate, SqlSelectT} => TableOf(sql) \in eng.tables
    /\ sql = SqlBegin => ~eng.inTx
    /\ sql = SqlCommit => eng.inTx

\* A statement that can succeed may still fail (an environment fault).
Outcomes(eng, sql, args) == IF CanSucceed(eng, sql, args) THEN {TRUE, FALSE} ELSE {FALSE}

\* The engine after a statement that succeeded.
Apply(eng, sql, args) ==
    CASE sql \in {SqlCreateRecords, SqlCreateT} ->
            [eng EXCEPT !.tables = @ \cup {TableOf(sql)}]
      [] sql = SqlBegin -> [eng EXCEPT !.inTx = TRUE]
      [] sql \in {SqlInsertRecord, SqlInsertT} ->
            IF eng.inTx
            THEN [eng EXCEPT !.txRows = Append(@, [tbl |-> TableOf(sql), v |-> args[1]])]
            ELSE [eng EXCEPT !.committed = Append(@, [tbl |-> TableOf(sql), v |-> args[1]])]
      [] sql = SqlCommit ->
            [eng EXCEPT !.committed = @ \o eng.txRows, !.txRows = << >>, !.inTx = FALSE]
      [] OTHER -> eng

\* The rows of a table the connection sees, in insertion order.
Visible(eng, tbl) ==
    LET all == eng.committed \o eng.txRows
        mine == SelectSeq(all, LAMBDA r : r.tbl = tbl)
    IN  [k \in 1..Len(mine) |-> mine[k].v]

\* One entry of the log of database operations.
Op(sql, args, ok, canSucceed) == [sql |-> sql, args |-> args, ok |-> ok, fault |-> canSucceed /\ ~ok]

\* db.Exec(sql, args...) with outcome ok.
Exec(sql, args, ok) ==
    /\ ok \in Outcomes(engine, sql, args)
    /\ log' = Append(log, Op(sql, args, ok, CanSucceed(engine, sql, args)))
    /\ engine' = IF ok THEN Apply(engine, sql, args) ELSE engine

\* The aggregates of line 72, by their SQL meaning, over the values vs.
RECURSIVE SeqSum(_)
SeqSum(s) == IF s = << >> THEN Float(0) ELSE FAdd(Head(s), SeqSum(Tail(s)))

SeqSquares(s) == [k \in 1..Len(s) |-> FMul(s[k], s[k])]

SqlAvg(vs) == FDiv(SeqSum(vs), Float(Len(vs)))
SqlMin(vs) == CHOOSE x \in {vs[k] : k \in 1..Len(vs)} : \A k \in 1..Len(vs) : ~FLt(vs[k], x)
SqlMax(vs) == CHOOSE x \in {vs[k] : k \in 1..Len(vs)} : \A k \in 1..Len(vs) : ~FGt(vs[k], x)
SqlStddevPop(vs) ==
    Sqrt(FSub(FDiv(SeqSum(SeqSquares(vs)), Float(Len(vs))), FMul(SqlAvg(vs), SqlAvg(vs))))

\* The k-th smallest of vs, k in 1..Len(vs).
Kth(vs, k) ==
    CHOOSE x \in {vs[j] : j \in 1..Len(vs)} :
        /\ Cardinality({j \in 1..Len(vs) : FLt(vs[j], x)}) < k
        /\ Cardinality({j \in 1..Len(vs) : ~FGt(vs[j], x)}) >= k

SqlMedian(vs) ==
    LET n == Len(vs)
    IN  IF n % 2 = 1 THEN Kth(vs, (n + 1) \div 2)
        ELSE FDiv(FAdd(Kth(vs, n \div 2), Kth(vs, n \div 2 + 1)), Float(2))

Null == [null |-> TRUE]

\* The single row the aggregate query returns: NULLs over an empty table.
AggregateRow(eng) ==
    LET vs == Visible(eng, "records")
    IN  IF vs = << >> THEN <<Null, Null, Null, Null, Null>>
        ELSE <<SqlAvg(vs), SqlMedian(vs), SqlStddevPop(vs), SqlMin(vs), SqlMax(vs)>>

\* rows.Scan(&mean, &median, &stddev, &max, &min): column k goes to the k-th
\* destination of line 81.
ScanDest == <<"mean", "median", "stddev", "max", "min">>

ScanRow(row) == [name \in {"mean", "median", "stddev", "min", "max"} |->
                    row[CHOOSE k \in 1..5 : ScanDest[k] = name]]

\* Line 85: return mean, median, stddev, min, max.
ReturnFromDB(loc) == <<loc.mean, loc.median, loc.stddev, loc.min, loc.max>>

\* ------------------------------------------------------------------ output and termination

Report(k) == <<"error", k>>
Panic == <<"panic: nil pointer dereference">>

\* log.Fatal(...) and fmt.Println(err); os.Exit(1): print, then leave at once.
\* Deferred calls do not run.
ExitWith(lines, status) ==
    /\ out' = out \o lines
    /\ exit' = status
    /\ pc' = "exited"

\* ------------------------------------------------------------------ statistics.go

Init ==
    /\ prog \in {"statistics", "basic"}
    /\ pc = "start"
    /\ N \in IF prog = "statistics" THEN 1..MaxN ELSE {0}
    /\ records = << >>
    /\ given = << >>
    /\ i = 0
    /\ err = 0
    /\ stats = << >>
    /\ scanned = << >>
    /\ out = << >>
    /\ exit = -1
    /\ db = "none"
    /\ rows = "none"
    /\ log = << >>
    /\ engine = Idle

\* main, lines 112-117, with CreateDB.
MainCreateDB ==
    /\ prog = "statistics"
    /\ pc = "start"
    /\ \E ok \in BOOLEAN :
        /\ log' = Append(log, Op("sql.Open", << >>, ok, TRUE))
        /\ IF ok
           THEN /\ db' = "open"
                /\ out' = Append(out, <<"Inserting records", N>>)
                /\ pc' = "createtable"
                /\ UNCHANGED exit
           ELSE /\ db' = "nil"
                /\ ExitWith(<<<<"Inserting records", N>>, Report(Len(log'))>>, 1)
    /\ UNCHANGED <<prog, N, records, given, i, err, stats, scanned, rows, engine>>

\* main, lines 119-122, with CreateRecordsTable.
MainCreateRecordsTable ==
    /\ prog = "statistics"
    /\ pc = "createtable"
    /\ \E ok \in BOOLEAN :
        /\ Exec(SqlCreateRecords, << >>, ok)
        /\ IF ok
           THEN pc' = "generate" /\ UNCHANGED <<out, exit>>
           ELSE ExitWith(<<Report(Len(log'))>>, 1)
    /\ UNCHANGED <<prog, N, records, given, i, err, stats, scanned, db, rows>>

\* Mutant of GenerateRecords: values counted from 1.
GenerateRecordsFromOne(n) == [k \in 1..n |-> [ID |-> k - 1, Value |-> Float(k)]]

\* main, lines 125-131.
GenerateRecords(n) == [k \in 1..n |-> [ID |-> k - 1, Value |-> Float(k - 1)]]

MainGenerate ==
    /\ prog = "statistics"
    /\ pc = "generate"
    /\ records' = GenerateRecords(N)
    /\ pc' = "begin"
    /\ UNCHANGED <<prog, N, given, i, err, stats, scanned, out, exit, db, rows, log, engine>>

\* StandardInsert, lines 89-92.
InsertBegin ==
    /\ prog = "statistics"
    /\ pc = "begin"
    /\ \E ok \in BOOLEAN :
        /\ Exec(SqlBegin, << >>, ok)
        /\ IF ok
           THEN pc' = "insert" /\ i' = 0 /\ UNCHANGED err
           ELSE pc' = "inserted" /\ err' = Len(log') /\ UNCHANGED i
    /\ UNCHANGED <<prog, N, records, given, stats, scanned, out, exit, db, rows>>

\* Mutant of InsertRecord: the error of an INSERT is dropped and the loop goes on.
InsertRecordKeepsGoing ==
    /\ prog = "statistics"
    /\ pc = "insert"
    /\ IF i < Len(records)
       THEN \E ok \in BOOLEAN :
              /\ Exec(SqlInsertRecord, <<records[i + 1].Value>>, ok)
              /\ i' = i + 1
              /\ UNCHANGED <<pc, err>>
       ELSE pc' = "commit" /\ UNCHANGED <<i, err, log, engine>>
    /\ UNCHANGED <<prog, N, records, given, stats, scanned, out, exit, db, rows>>

\* StandardInsert, lines 93-98: one iteration of the loop, or its end.
InsertRecord ==
    /\ prog = "statistics"
    /\ pc = "insert"
    /\ IF i < Len(records)
       THEN \E ok \in BOOLEAN :
              /\ Exec(SqlInsertRecord, <<records[i + 1].Value>>, ok)
              /\ IF ok
                 THEN i' = i + 1 /\ UNCHANGED <<pc, err>>
                 ELSE pc' = "inserted" /\ err' = Len(log') /\ UNCHANGED i
       ELSE pc' = "commit" /\ UNCHANGED <<i, err, log, engine>>
    /\ UNCHANGED <<prog, N, records, given, stats, scanned, out, exit, db, rows>>

\* StandardInsert, lines 99-103.
InsertCommit ==
    /\ prog = "statistics"
    /\ pc = "commit"
    /\ \E ok \in BOOLEAN :
        /\ Exec(SqlCommit, << >>, ok)
        /\ err' = IF ok THEN 0 ELSE Len(log')
    /\ pc' = "inserted"
    /\ UNCHANGED <<prog, N, records, given, i, stats, scanned, out, exit, db, rows>>

\* Mutant of MainCheckInsert: the error of StandardInsert is not checked.
MainCheckInsertIgnoresErr ==
    /\ prog = "statistics"
    /\ pc = "inserted"
    /\ out' = Append(out, <<"Insertion into DuckDB took">>)
    /\ pc' = "fromrecords"
    /\ UNCHANGED <<prog, N, records, given, i, err, stats, scanned, exit, db, rows, log, engine>>

\* main, lines 136-140: StandardInsert has returned err.
MainCheckInsert ==
    /\ prog = "statistics"
    /\ pc = "inserted"
    /\ IF err # 0
       THEN ExitWith(<<Report(err)>>, 1)
       ELSE /\ out' = Append(out, <<"Insertion into DuckDB took">>)
            /\ pc' = "fromrecords"
            /\ UNCHANGED exit
    /\ UNCHANGED <<prog, N, records, given, i, err, stats, scanned, db, rows, log, engine>>

\* main, lines 143-146.
MainStatisticsFromRecords ==
    /\ prog = "statistics"
    /\ pc = "fromrecords"
    /\ given' = records
    /\ LET r == StatisticsFromRecords(records)
       IN  /\ stats' = r.ret
           /\ records' = r.records
           /\ out' = Append(out, <<"from records", r.ret>>)
    /\ pc' = "query"
    /\ UNCHANGED <<prog, N, i, err, scanned, exit, db, rows, log, engine>>

\* StatisticsFromDB, lines 72-76.
DBQuery ==
    /\ prog = "statistics"
    /\ pc = "query"
    /\ \E ok \in Outcomes(engine, SqlAggregate, << >>) :
        /\ log' = Append(log, Op(SqlAggregate, << >>, ok, CanSucceed(engine, SqlAggregate, << >>)))
        /\ IF ok
           THEN rows' = "open" /\ pc' = "next" /\ UNCHANGED <<out, exit>>
           ELSE rows' = "nil" /\ ExitWith(<<Report(Len(log'))>>, 1)
    /\ UNCHANGED <<prog, N, records, given, i, err, stats, scanned, db, engine>>

\* StatisticsFromDB, lines 77-79.  A Next that returns false closes the rows.
DBNext ==
    /\ prog = "statistics"
    /\ pc = "next"
    /\ \E ok \in BOOLEAN :
        /\ log' = Append(log, Op("rows.Next", << >>, ok, TRUE))
        /\ IF ok
           THEN pc' = "scan" /\ UNCHANGED <<rows, out, exit>>
           ELSE rows' = "closed" /\ ExitWith(<<Report(Len(log'))>>, 1)
    /\ UNCHANGED <<prog, N, records, given, i, err, stats, scanned, db, engine>>

\* StatisticsFromDB, lines 80-84.  A NULL does not scan into a float64.
DBScan ==
    /\ prog = "statistics"
    /\ pc = "scan"
    /\ LET row == AggregateRow(engine)
           can == \A k \in 1..5 : row[k] # Null
       IN  \E ok \in IF can THEN {TRUE, FALSE} ELSE {FALSE} :
             /\ log' = Append(log, Op("rows.Scan", << >>, ok, can))
             /\ IF ok
                THEN scanned' = ScanRow(row) /\ pc' = "return" /\ UNCHANGED <<out, exit>>
                ELSE UNCHANGED scanned /\ ExitWith(<<Report(Len(log'))>>, 1)
    /\ UNCHANGED <<prog, N, records, given, i, err, stats, db, rows, engine>>

\* StatisticsFromDB, lines 85 and 76 (the deferred rows.Close), then main,
\* lines 150-153.
DBReturn ==
    /\ prog = "statistics"
    /\ pc = "return"
    /\ rows' = "closed"
    /\ stats' = ReturnFromDB(scanned)
    /\ ExitWith(<<<<"from DB", stats'>>>>, 0)
    /\ UNCHANGED <<prog, N, records, given, i, err, scanned, db, log, engine>>

\* ------------------------------------------------------------------ basic.go

\* Line 12: the error of sql.Open is discarded.
BasicOpen ==
    /\ prog = "basic"
    /\ pc = "start"
    /\ \E ok \in BOOLEAN :
        /\ log' = Append(log, Op("sql.Open", << >>, ok, TRUE))
        /\ db' = IF ok THEN "open" ELSE "nil"
    /\ pc' = "create"
    /\ UNCHANGED <<prog, N, records, given, i, err, stats, scanned, out, exit, rows, engine>>

\* Lines 13-17.  A method call on a nil *sql.DB panics.
BasicCreateTable ==
    /\ prog = "basic"
    /\ pc = "create"
    /\ IF db = "nil"
       THEN ExitWith(<<Panic>>, 2) /\ UNCHANGED <<log, engine, i>>
       ELSE \E ok \in BOOLEAN :
              /\ Exec(SqlCreateT, << >>, ok)
              /\ IF ok
                 THEN pc' = "loop" /\ i' = 0 /\ UNCHANGED <<out, exit>>
                 ELSE ExitWith(<<Report(Len(log'))>>, 1) /\ UNCHANGED i
    /\ UNCHANGED <<prog, N, records, given, err, stats, scanned, db, rows>>

\* Lines 19-31.  The loop of lines 19-25, the query of line 26 (its error is
\* discarded) and the row loop of lines 27-31 (the error of Scan is discarded:
\* the local i keeps its zero value).  The cursor of the row loop is i.
\* The statement of line 20 can never succeed (see Parses and Placeholders),
\* so the program leaves at line 23 in the first iteration and the arms for
\* lines 26-31 are never taken: they are kept as a transcription of the code.
BasicBody ==
    /\ prog = "basic"
    /\ CASE pc = "loop" ->
              IF i < LoopCount
              THEN \E ok \in Outcomes(engine, SqlInsertT, <<i>>) :
                     /\ Exec(SqlInsertT, <<i>>, ok)
                     /\ IF ok
                        THEN i' = i + 1 /\ UNCHANGED <<pc, out, exit>>
                        ELSE ExitWith(<<Report(Len(log'))>>, 1) /\ UNCHANGED i
                     /\ UNCHANGED rows
              ELSE pc' = "select" /\ UNCHANGED <<i, out, exit, rows, log, engine>>
         [] pc = "select" ->
              \E ok \in Outcomes(engine, SqlSelectT, << >>) :
                /\ log' = Append(log, Op(SqlSelectT, << >>, ok, CanSucceed(engine, SqlSelectT, << >>)))
                /\ rows' = IF ok THEN "open" ELSE "nil"
                /\ i' = 0
                /\ pc' = "rows"
                /\ UNCHANGED <<out, exit, engine>>
         [] pc = "rows" ->
              IF rows = "nil"
              THEN ExitWith(<<Panic>>, 2) /\ UNCHANGED <<i, rows, log, engine>>
              ELSE IF i < Len(Visible(engine, "t"))
              THEN \E ok \in BOOLEAN :
                     /\ log' = Append(log, Op("rows.Scan", << >>, ok, TRUE))
                     /\ out' = Append(out, <<"value", IF ok THEN Visible(engine, "t")[i + 1] ELSE 0>>)
                     /\ i' = i + 1
                     /\ UNCHANGED <<pc, exit, rows, engine>>
              ELSE /\ rows' = "closed"
                   /\ ExitWith(<< >>, 0)
                   /\ UNCHANGED <<i, log, engine>>
         [] OTHER -> FALSE
    /\ UNCHANGED <<prog, N, records, given, err, stats, scanned, db>>

Next ==
    \/ MainCreateDB
    \/ MainCreateRecordsTable
    \/ MainGenerate
    \/ InsertBegin
    \/ InsertRecord
    \/ InsertCommit
    \/ MainCheckInsert
    \/ MainStatisticsFromRecords
    \/ DBQuery
    \/ DBNext
    \/ DBScan
    \/ DBReturn
    \/ BasicOpen
    \/ BasicCreateTable
    \/ BasicBody

Spec == Init /\ [][Next]_vars

\* ------------------------------------------------------------------ helpers of the properties

ValuesOf(recs) == [k \in 1..Len(recs) |-> recs[k].Value]

IsUnsorted(recs) == \E k \in 1..(Len(recs) - 1) : FGt(recs[k].Value, recs[k + 1].Value)

\* The lines printed with a given label.
Printed(label) == SelectSeq(out, LAMBDA line : line[1] = label)

\* The statements StandardInsert issued, in order.
InsertLog == SelectSeq(log, LAMBDA op : op.sql \in {SqlBegin, SqlInsertRecord, SqlCommit})

\* What StandardInsert is to issue for the records: BEGIN, one INSERT each, COMMIT.
ExpectedInsertLog ==
    <<[sql |-> SqlBegin, args |-> << >>]>>
    \o [k \in 1..Len(records) |-> [sql |-> SqlInsertRecord, args |-> <<records[k].Value>>]]
    \o <<[sql |-> SqlCommit, args |-> << >>]>>

StandardInsertReturned == InsertLog # << >> /\ pc \notin {"insert", "commit"}

Failed(sqls) == \E k \in 1..Len(log) : log[k].sql \in sqls /\ ~log[k].ok

\* ------------------------------------------------------------------ the properties

\* C1: whenever both statistics lines have been printed, the five values from
\* the database (mean, median, stddev, min, max) equal, position by position,
\* the five values computed from the records.
C1_DBAgreesWithRecords ==
    \A a \in 1..Len(Printed("from records")), b \in 1..Len(Printed("from DB")) :
        Printed("from records")[a][2] = Printed("from DB")[b][2]

\* C2: when the basic demo has ended and no environment fault occurred, it has
\* printed exactly the values 0..9, each once, and its exit status is 0.
C2_BasicPrintsZeroToNine ==
    (prog = "basic" /\ exit # -1 /\ \A k \in 1..Len(log) : ~log[k].fault)
        => /\ exit = 0
           /\ Len(Printed("value")) = LoopCount
           /\ {Printed("value")[k][2] : k \in 1..Len(Printed("value"))} = 0..(LoopCount - 1)

\* C3: when a program has terminated, no connection handle and no result-set
\* handle is still open.
C3_HandlesReleasedAtExit == exit # -1 => db # "open" /\ rows # "open"

\* C4: a failed database operation is the last one attempted, and once the
\* program has terminated after it, the status is non-zero and the last thing
\* printed is the report of that error.
C4_FailureIsFatal ==
    \A k \in 1..Len(log) :
        ~log[k].ok =>
            /\ k = Len(log)
            /\ exit # -1 => exit > 0 /\ out # << >> /\ out[Len(out)] = Report(k)

\* C5: StandardInsert issues BEGIN, then one INSERT per record in list order
\* with that record's value, then COMMIT; a statement that failed is the last
\* one issued; it returns nil exactly when all N+2 statements succeeded, and
\* otherwise the error of the statement that failed.
C5_StandardInsertOrder ==
    prog = "statistics" =>
        /\ Len(InsertLog) <= Len(ExpectedInsertLog)
        /\ \A k \in 1..Len(InsertLog) :
              /\ InsertLog[k].sql = ExpectedInsertLog[k].sql
              /\ InsertLog[k].args = ExpectedInsertLog[k].args
              /\ k < Len(InsertLog) => InsertLog[k].ok
        /\ StandardInsertReturned =>
              /\ err = 0 <=> (Len(InsertLog) = Len(records) + 2 /\ InsertLog[Len(InsertLog)].ok)
              /\ err # 0 => /\ log[err] = InsertLog[Len(InsertLog)]
                           /\ ~log[err].ok
                           /\ err = Len(log)

\* C5 witness: StandardInsert has returned the error of an INSERT that failed
\* after an earlier INSERT succeeded.
C5_Witness ==
    /\ pc = "inserted"
    /\ err # 0
    /\ log[err].sql = SqlInsertRecord
    /\ Len(InsertLog) >= 3
    /\ Len(InsertLog) < Len(records) + 1

\* C6: the median returned is the middle value of the values in ascending
\* order for odd N, and the average of the two middle values for even N,
\* whatever the order of the records.
C6_MedianIsMiddle ==
    (prog = "lib" /\ pc = "returned") =>
        LET vs == ValuesOf(given)
            n == Len(vs)
        IN  /\ n % 2 = 1 => stats[2] = Kth(vs, n \div 2 + 1)
            /\ n % 2 = 0 => stats[2] = FDiv(FAdd(Kth(vs, n \div 2), Kth(vs, n \div 2 + 1)), Float(2))
            /\ {vs[k] : k \in 1..n} = {Float(1), Float(2), Float(3), Float(4), Float(5)} /\ n = 5
                  => stats[2] = Float(3)
            /\ {vs[k] : k \in 1..n} = {Float(1), Float(2), Float(3), Float(4)} /\ n = 4
                  => stats[2] = Rat(5, 2)

\* C6 witness: the call has returned 2.5 for the values 1, 2, 3, 4 given out of order.
C6_Witness ==
    /\ prog = "lib"
    /\ pc = "returned"
    /\ ValuesOf(given) = <<Float(3), Float(1), Float(4), Float(2)>>
    /\ stats[2] = [n |-> 5, d |-> 2]

\* C7: the generated records have identifiers 0..N-1 in order with value
\* equal to the identifier, and the statistics computed from them have
\* min = 0 and max = N-1.
C7_GeneratedMinMax ==
    prog = "statistics" =>
        /\ pc \notin {"start", "createtable", "generate", "exited"} => Len(records) = N
        /\ \A k \in 1..Len(records) : records[k] = [ID |-> k - 1, Value |-> Float(k - 1)]
        /\ \A a \in 1..Len(Printed("from records")) :
              /\ Printed("from records")[a][2][4] = Float(0)
              /\ Printed("from records")[a][2][5] = Float(N - 1)

\* C7 witness: the statistics of at least three generated records have been printed.
C7_Witness ==
    /\ prog = "statistics"
    /\ N >= 3
    /\ Len(records) = N
    /\ Len(Printed("from records")) = 1

\* C8: the mean returned is (sum of values)/N and the stddev returned is the
\* square root of the population variance: N*N*variance = N*(sum of squares)
\* - (sum)^2; for 1, 2, 3, 4 the variance is 5/4.
C8_MeanAndPopulationStdDev ==
    (prog = "lib" /\ pc = "returned") =>
        LET vs == ValuesOf(given)
            n == Len(vs)
            s1 == SeqSum(vs)
            s2 == SeqSum(SeqSquares(vs))
        IN  /\ FMul(stats[1], Float(n)) = s1
            /\ FMul(Float(n * n), stats[3].sqrt) = FSub(FMul(Float(n), s2), FMul(s1, s1))
            /\ vs = <<Float(1), Float(2), Float(3), Float(4)>> => stats[3] = Sqrt(Rat(5, 4))

\* C8 witness: the call has returned mean 5/2 and variance 5/4 for 1, 2, 3, 4.
C8_Witness ==
    /\ prog = "lib"
    /\ pc = "returned"
    /\ ValuesOf(given) = <<Float(1), Float(2), Float(3), Float(4)>>
    /\ stats[1] = [n |-> 5, d |-> 2]
    /\ stats[3] = [sqrt |-> [n |-> 5, d |-> 4]]

\* C9: a statement of StandardInsert is issued only after the records table
\* was created; the aggregate query is issued only after StandardInsert
\* returned nil with its COMMIT done, and the table then holds exactly the N
\* generated values; if table creation or insertion failed, no statistics are
\* computed or printed and the query is never issued.
C9_PhaseOrder ==
    prog = "statistics" =>
        /\ \A k \in 1..Len(log) :
              log[k].sql \in {SqlBegin, SqlInsertRecord, SqlCommit}
                  => \E j \in 1..(k - 1) : log[j].sql = SqlCreateRecords /\ log[j].ok
        /\ \A k \in 1..Len(log) :
              log[k].sql = SqlAggregate
                  => /\ err = 0
                     /\ \E j \in 1..(k - 1) : log[j].sql = SqlCommit /\ log[j].ok
                     /\ Visible(engine, "records") = [m \in 1..N |-> Float(m - 1)]
        /\ Failed({SqlCreateRecords, SqlBegin, SqlInsertRecord, SqlCommit})
              => /\ stats = << >>
                 /\ Printed("from records") = << >>
                 /\ Printed("from DB") = << >>
                 /\ \A k \in 1..Len(log) : log[k].sql # SqlAggregate

\* C9 witness: the aggregate query has been issued over at least two committed rows.
C9_Witness ==
    /\ prog = "statistics"
    /\ N >= 2
    /\ \E k \in 1..Len(log) : log[k].sql = SqlAggregate /\ log[k].ok

\* C10: after the call the caller's records are the records it passed, in the
\* same order.
C10_RecordsUnchanged == (prog = "lib" /\ pc = "returned") => records = given

\* C10 witness: the call has returned for a list that was not in ascending order.
C10_Witness ==
    /\ prog = "lib"
    /\ pc = "returned"
    /\ IsUnsorted(given)
    /\ records = given

====
